---- MODULE Spec2Model ----
(***************************************************************************)
(* nstimes: the local station matcher (src/stations.rs) and the price      *)
(* cache (src/cache/models.rs, src/cache/service.rs).                      *)
(*                                                                         *)
(* Strings are sequences of one-character strings, so that lower-casing,   *)
(* substring search, byte-wise comparison, formatting and date parsing are *)
(* computed character by character as the code computes them.              *)
(***************************************************************************)
EXTENDS Integers, Sequences, FiniteSets, TLC

VARIABLES
    stations,   \* crate::constants::STATIONS: the static table of (name, code)
    call,       \* the last station-matcher call: function, query, result, stdout
    entries,    \* PriceCache.entries: HashMap<String, CacheEntry>
    file,       \* the backing file at PriceCache.path
    today,      \* chrono::Local::now().date_naive()
    last,       \* the last PriceCache call: operation, arguments, result
    everSet,    \* history: the (station pair, class) set was ever called for
    handle,     \* the PriceCache value: how PriceCache::new ended, and history:
                \* whether a set or cleanup on it returned Err
    dir,        \* whether the parent directory of PriceCache.path exists
    threads,    \* the callers sharing the PriceCache: position and locals of each
    lock,       \* the holder of the Mutex around entries (0: not held)
    hist,       \* history: mutations of the mapping counted, and the count the
                \* mapping had when the file was last written
    request     \* the last get_prices call: arguments, remote exchange, result

vars == <<stations, call, entries, file, today, last, everSet,
          handle, dir, threads, lock, hist, request>>

stationVars == <<stations, call>>
threadVars == <<threads, lock, hist>>
otherVars == <<dir, threads, lock, hist, request>>
idleVars == <<handle, dir, threads, lock, hist, request>>
cacheVars == <<entries, file, today, last, everSet, idleVars>>

----------------------------------------------------------------------------
(* Bounds of the model *)

MaxStations == 2        \* entries in the station table
MaxNameLen == 2         \* characters in a station name or a query

----------------------------------------------------------------------------
(* Strings *)

\* Byte value of each character used, for Rust's byte-wise str ordering.
Ord(c) ==
    CASE c = " " -> 32
      [] c = "-" -> 45
      [] c = "0" -> 48 [] c = "1" -> 49 [] c = "2" -> 50 [] c = "3" -> 51
      [] c = "4" -> 52 [] c = "5" -> 53 [] c = "6" -> 54 [] c = "7" -> 55
      [] c = "8" -> 56 [] c = "9" -> 57
      [] c = "A" -> 65 [] c = "B" -> 66
      [] c = "a" -> 97 [] c = "b" -> 98
      [] OTHER -> 0

DigitChar(d) ==
    CASE d = 0 -> "0" [] d = 1 -> "1" [] d = 2 -> "2" [] d = 3 -> "3"
      [] d = 4 -> "4" [] d = 5 -> "5" [] d = 6 -> "6" [] d = 7 -> "7"
      [] d = 8 -> "8" [] d = 9 -> "9"

IsDigit(c) == Ord(c) >= 48 /\ Ord(c) <= 57

DigitVal(c) == Ord(c) - 48

\* i32::to_string / format!("{}", n) for n >= 0: decimal digits, no padding.
RECURSIVE to_string(_)
to_string(n) ==
    IF n < 10 THEN <<DigitChar(n)>>
    ELSE to_string(n \div 10) \o <<DigitChar(n % 10)>>

\* char::to_lowercase on the characters of the model's alphabet.
LowerChar(c) ==
    CASE c = "A" -> "a"
      [] c = "B" -> "b"
      [] OTHER -> c

\* str::to_lowercase
to_lowercase(s) == [i \in 1..Len(s) |-> LowerChar(s[i])]

\* Variant of contains: q only as a prefix of s (starts_with).
contains_prefix(s, q) ==
    Len(q) <= Len(s) /\ SubSeq(s, 1, Len(q)) = q

\* Variant of contains: receiver and argument exchanged (q contains s).
contains_swapped(s, q) ==
    \E i \in 0..(Len(q) - Len(s)) : SubSeq(q, i + 1, i + Len(s)) = s

\* Variant of contains: the empty string occurs in no string.
contains_nonempty(s, q) ==
    q # <<>> /\ \E i \in 0..(Len(s) - Len(q)) : SubSeq(s, i + 1, i + Len(q)) = q

\* str::contains(&q): q occurs in s as a contiguous substring ("" always does).
contains(s, q) ==
    \E i \in 0..(Len(s) - Len(q)) : SubSeq(s, i + 1, i + Len(q)) = q

----------------------------------------------------------------------------
(* The station table *)

LookupChars == {"a", "A", "b"}

Strings(chars, lo, hi) == UNION {[1..n -> chars] : n \in lo..hi}

StationNameSet == Strings(LookupChars, 1, MaxNameLen)
Queries == Strings(LookupChars, 0, MaxNameLen)

\* UIC code of the i-th table entry: distinct per entry.
CodeAt(i) == 8400050 + i

\* Two names that differ at most in the case of their letters.
SameNameIgnoringCase(s, t) ==
    /\ Len(s) = Len(t)
    /\ \A i \in 1..Len(s) :
          \/ s[i] = t[i]
          \/ {s[i], t[i]} = {"a", "A"}
          \/ {s[i], t[i]} = {"b", "B"}

\* The tables the model draws STATIONS from: a name -> code table, so each
\* display name occurs once (also when compared case-insensitively).
NameLists ==
    { l \in UNION {[1..n -> StationNameSet] : n \in 0..MaxStations} :
        \A i, j \in 1..Len(l) : SameNameIgnoringCase(l[i], l[j]) => i = j }

Tables == { [i \in 1..Len(l) |-> <<l[i], CodeAt(i)>>] : l \in NameLists }

----------------------------------------------------------------------------
(* src/stations.rs *)

Station(name, code) ==
    [id |-> [uic_code |-> to_string(code)], names |-> [long |-> name]]

NoStation == [id |-> [uic_code |-> <<>>], names |-> [long |-> <<>>]]

\* The messages of the two Err results (their leading emoji left out).

ErrNoStations == "No stations found for your query"
ErrMultiple == "Multiple stations matched. Please refine your query."

\* Variant of FindExact: the exact pass left out.
FindExactNever(table, q) == 0

\* STATIONS.iter().find(|(key, _)| key.to_lowercase() == q): index of the
\* first entry whose lower-cased name equals q, 0 if there is none.
FindExact(table, q) ==
    LET hits == {i \in 1..Len(table) : to_lowercase(table[i][1]) = q}
    IN  IF hits = {} THEN 0 ELSE CHOOSE i \in hits : \A j \in hits : i <= j

\* Variant of Filter: the matches collected in reverse table order.
RECURSIVE FilterRev(_, _)
FilterRev(table, q) ==
    IF table = <<>> THEN <<>>
    ELSE LET rest == FilterRev(Tail(table), q)
         IN  IF contains(to_lowercase(Head(table)[1]), q)
             THEN rest \o <<Head(table)>> ELSE rest

\* STATIONS.iter().filter(|(key, _)| key.to_lowercase().contains(&q)).collect()
RECURSIVE Filter(_, _)
Filter(table, q) ==
    IF table = <<>> THEN <<>>
    ELSE LET rest == Filter(Tail(table), q)
         IN  IF contains(to_lowercase(Head(table)[1]), q)
             THEN <<Head(table)>> \o rest ELSE rest

\* println!("Your query `{}` was ambiguous, multiple stations matched:", query)
\* (the two backquotes around the query written as quotes)
HeaderLine(query) ==
    <<"Your query '">> \o query \o <<"' was ambiguous, multiple stations matched:">>

\* println!("{} - {}", code, name)
MatchLine(m) == to_string(m[2]) \o <<" ", "-", " ">> \o m[1]

\* pick_station_local(query): the returned Result and the lines it prints.
pick_station_local(table, query) ==
    LET q == to_lowercase(query)
        hit == FindExact(table, q)
        matches == Filter(table, q)
    IN  IF hit # 0
        THEN [ret |-> [tag |-> "Ok", station |-> Station(table[hit][1], table[hit][2]),
                       err |-> "", matches |-> <<>>],
              printed |-> <<>>]
        ELSE IF Len(matches) = 0
        THEN [ret |-> [tag |-> "Err", station |-> NoStation, err |-> ErrNoStations,
                       matches |-> <<>>],
              printed |-> <<>>]
        ELSE IF Len(matches) = 1
        THEN [ret |-> [tag |-> "Ok",
                       station |-> Station(matches[1][1], matches[1][2]),
                       err |-> "", matches |-> <<>>],
              printed |-> <<>>]
        ELSE [ret |-> [tag |-> "Err", station |-> NoStation, err |-> ErrMultiple,
                       matches |-> <<>>],
              printed |-> <<HeaderLine(query)>>
                            \o [i \in 1..Len(matches) |-> MatchLine(matches[i])]]

\* lookup_station_local(query) -> StationLookupResult, the matcher get_price
\* (src/bin/server.rs) calls: the same two passes, the outcome returned as
\* Single(Station) | None | Multiple(Vec<(String, i32)>) and nothing printed.
lookup_station_local(table, query) ==
    LET q == to_lowercase(query)
        hit == FindExact(table, q)
        matches == Filter(table, q)
    IN  IF hit # 0
        THEN [ret |-> [tag |-> "Single",
                       station |-> Station(table[hit][1], table[hit][2]),
                       err |-> "", matches |-> <<>>],
              printed |-> <<>>]
        ELSE IF Len(matches) = 0
        THEN [ret |-> [tag |-> "None", station |-> NoStation, err |-> "",
                       matches |-> <<>>],
              printed |-> <<>>]
        ELSE IF Len(matches) = 1
        THEN [ret |-> [tag |-> "Single",
                       station |-> Station(matches[1][1], matches[1][2]),
                       err |-> "", matches |-> <<>>],
              printed |-> <<>>]
        ELSE [ret |-> [tag |-> "Multiple", station |-> NoStation, err |-> "",
                       matches |-> matches],
              printed |-> <<>>]

NoCall ==
    [fn |-> "none", query |-> <<>>,
     ret |-> [tag |-> "none", station |-> NoStation, err |-> "", matches |-> <<>>],
     printed |-> <<>>]

PickStationLocal(query) ==
    /\ call.fn = "none"
    /\ call' = [fn |-> "pick_station_local", query |-> query,
                ret |-> pick_station_local(stations, query).ret,
                printed |-> pick_station_local(stations, query).printed]
    /\ UNCHANGED <<stations, cacheVars>>

LookupStationLocal(query) ==
    /\ call.fn = "none"
    /\ call' = [fn |-> "lookup_station_local", query |-> query,
                ret |-> lookup_station_local(stations, query).ret,
                printed |-> lookup_station_local(stations, query).printed]
    /\ UNCHANGED <<stations, cacheVars>>

----------------------------------------------------------------------------
(* Dates: chrono::NaiveDate as year, month, day *)

FirstYear == 2025       \* the year the clock starts in
NumYears == 2           \* calendar years the clock runs through
NumThreads == 2         \* callers sharing one PriceCache
MaxCalls == 3           \* calls the concurrent callers start in all

Date(y, m, d) == [year |-> y, month |-> m, day |-> d]

NoDate == [year |-> 0, month |-> 0, day |-> 0]

IsLeap(y) == (y % 4 = 0 /\ y % 100 # 0) \/ y % 400 = 0

DaysInMonth(y, m) ==
    IF m \in {4, 6, 9, 11} THEN 30
    ELSE IF m = 2 THEN (IF IsLeap(y) THEN 29 ELSE 28)
    ELSE 31

\* Variant of DateGeq: strictly later.
DateGeqStrict(a, b) ==
    \/ a.year > b.year
    \/ a.year = b.year /\ a.month > b.month
    \/ a.year = b.year /\ a.month = b.month /\ a.day > b.day

\* NaiveDate's ordering, as now >= expiry_date uses it.
DateGeq(a, b) ==
    \/ a.year > b.year
    \/ a.year = b.year /\ a.month > b.month
    \/ a.year = b.year /\ a.month = b.month /\ a.day >= b.day

\* The days of the year the clock is observed on: the first and the last.
ClockDays == {<<1, 1>>, <<12, 31>>}

ClockDates ==
    { Date(y, md[1], md[2]) : y \in FirstYear..(FirstYear + NumYears - 1),
                              md \in ClockDays }

\* Number of decimal digits of s from position i on, at most max.
RECURSIVE DigitsAt(_, _, _)
DigitsAt(s, i, max) ==
    IF max = 0 \/ i > Len(s) \/ ~IsDigit(s[i]) THEN 0
    ELSE 1 + DigitsAt(s, i + 1, max - 1)

\* Value of a sequence of decimal digits.
RECURSIVE DigitsValue(_)
DigitsValue(s) ==
    IF s = <<>> THEN 0
    ELSE 10 * DigitsValue(SubSeq(s, 1, Len(s) - 1)) + DigitVal(s[Len(s)])

\* Value of the n decimal digits of s from position i on.
RECURSIVE NumberAt(_, _, _)
NumberAt(s, i, n) ==
    IF n = 0 THEN 0
    ELSE 10 * NumberAt(s, i, n - 1) + DigitVal(s[i + n - 1])

\* The run of decimal digits of s from position i on, at most max of them:
\* its length and its value.
Field(s, i, max) ==
    CHOOSE f \in {[len |-> n, val |-> NumberAt(s, i, n)] : n \in {DigitsAt(s, i, max)}} : TRUE

\* The date of the fields year, month and day scanned in s, if the '-' are
\* where the format has them, nothing follows the day, and the numbers are a
\* date of the calendar.
DateOfFields(s, year, month, day) ==
    LET ok == /\ year.len >= 1 /\ Len(s) > year.len /\ s[year.len + 1] = "-"
              /\ month.len >= 1 /\ Len(s) > year.len + month.len + 1
              /\ s[year.len + month.len + 2] = "-"
              /\ day.len >= 1 /\ Len(s) = year.len + month.len + day.len + 2
              /\ month.val >= 1 /\ month.val <= 12
              /\ day.val >= 1 /\ day.val <= DaysInMonth(year.val, month.val)
    IN  IF ok THEN [ok |-> TRUE, date |-> Date(year.val, month.val, day.val)]
        ELSE [ok |-> FALSE, date |-> NoDate]

ParseDay(s, year, month) ==
    CHOOSE r \in {DateOfFields(s, year, month, day) :
                     day \in {Field(s, year.len + month.len + 3, 2)}} : TRUE

ParseMonth(s, year) ==
    CHOOSE r \in {ParseDay(s, year, month) : month \in {Field(s, year.len + 2, 2)}} : TRUE

\* NaiveDate::parse_from_str(s, "%Y-%m-%d"): an unsigned year of 1 to 4
\* digits, '-', a month of 1 to 2 digits, '-', a day of 1 to 2 digits, nothing
\* after it, and the three numbers a date of the calendar.
parse_from_str(s) ==
    CHOOSE r \in {ParseMonth(s, year) : year \in {Field(s, 1, 4)}} : TRUE

----------------------------------------------------------------------------
(* src/cache/models.rs *)

\* CacheEntry::next_january_first with Local::now() = now
next_january_first(now) ==
    LET current_year == now.year
        next_year == current_year + 1
    IN  to_string(next_year) \o <<"-", "0", "1", "-", "0", "1">>

\* CacheEntry::new(price_cents, travel_class) with Local::now() = now
CacheEntryNew(price_cents, travel_class, now) ==
    [price_cents |-> price_cents,
     travel_class |-> travel_class,
     expires_at |-> next_january_first(now)]

\* Variant of is_expired: expired only after the expiry date (now > expiry).
is_expired_after(entry, now) ==
    LET parsed == parse_from_str(entry.expires_at)
    IN  IF parsed.ok THEN DateGeqStrict(now, parsed.date) ELSE TRUE

\* Variant of is_expired: an expiry that does not parse never expires.
is_expired_lenient(entry, now) ==
    LET parsed == parse_from_str(entry.expires_at)
    IN  IF parsed.ok THEN DateGeq(now, parsed.date) ELSE FALSE

\* CacheEntry::is_expired with Local::now().date_naive() = now
is_expired(entry, now) ==
    LET parsed == parse_from_str(entry.expires_at)
    IN  IF parsed.ok THEN DateGeq(now, parsed.date) ELSE TRUE

----------------------------------------------------------------------------
(* src/cache/service.rs *)

\* Rust's str ordering (from < to): byte-wise lexicographic.
RECURSIVE StrLess(_, _)
StrLess(s, t) ==
    IF t = <<>> THEN FALSE
    ELSE IF s = <<>> THEN TRUE
    ELSE IF Ord(Head(s)) # Ord(Head(t)) THEN Ord(Head(s)) < Ord(Head(t))
    ELSE StrLess(Tail(s), Tail(t))

\* Variant of normalize_key: the two names not ordered.
normalize_key_unsorted(from, to, travel_class) ==
    from \o <<"-">> \o to \o <<"-">> \o to_string(travel_class)

\* PriceCache::normalize_key
normalize_key(from, to, travel_class) ==
    LET first == IF StrLess(from, to) THEN from ELSE to
        second == IF StrLess(from, to) THEN to ELSE from
    IN  first \o <<"-">> \o second \o <<"-">> \o to_string(travel_class)

\* Option<u32>
Some(v) == [some |-> TRUE, val |-> v]
None == [some |-> FALSE, val |-> 0]

EmptyMap == [k \in {} |-> 0]

\* Variant of Insert: the mapping is left with the inserted entry alone.
InsertAlone(m, key, entry) == [k \in {key} |-> entry]

\* HashMap::insert
Insert(m, key, entry) ==
    [k \in DOMAIN m \cup {key} |-> IF k = key THEN entry ELSE m[k]]

\* Variant of Retain: the expired entries are the ones kept.
RetainExpired(m, now) ==
    [k \in {x \in DOMAIN m : is_expired(m[x], now)} |-> m[k]]

\* HashMap::retain(|_, entry| !entry.is_expired())
Retain(m, now) ==
    [k \in {x \in DOMAIN m : ~is_expired(m[x], now)} |-> m[k]]

\* serde_json::to_writer_pretty(writer, &*entries): the members of the JSON
\* object written, one per key.
Serialize(m) ==
    { [key |-> k,
       price_cents |-> m[k].price_cents,
       travel_class |-> m[k].travel_class,
       expires_at |-> m[k].expires_at] : k \in DOMAIN m }

\* The backing file: whether it exists, what its bytes are ("object": a JSON
\* object of cache entries, "malformed": UTF-8 text that is not such an
\* object, "not_utf8": bytes that are not UTF-8 text), and for an object its
\* members.
NoFile == [exists |-> FALSE, text |-> "object", content |-> {}]

\* File::create on an existing path truncates it; nothing written after it.
Truncated == [exists |-> TRUE, text |-> "malformed", content |-> {}]

\* PriceCache::save: File::create, then the whole mapping written.
save(m) == [exists |-> TRUE, text |-> "object", content |-> Serialize(m)]

\* What the file system does to one save: "ok", "create_fails" (File::create
\* returns an error: the file is left as it was), "flush_fails" (File::create
\* has truncated the file and the write of the buffered bytes fails).
IoOutcomes == {"ok", "create_fails", "flush_fails"}

\* PriceCache::save under an outcome of the file system: the file it leaves
\* and whether it returns Ok. to_writer_pretty takes the BufWriter by value
\* and does not flush it: a mapping serialised in less than the buffer's
\* capacity (8 KiB) reaches the file only when the BufWriter is dropped, and
\* BufWriter's drop discards the error of that write.
save_io(m, f, io) ==
    CASE io = "ok" -> [file |-> save(m), ok |-> TRUE]
      [] io = "create_fails" -> [file |-> f, ok |-> FALSE]
      [] io = "flush_fails" -> [file |-> Truncated, ok |-> TRUE]

\* Variant of get: a miss removes the entry under the key.
get_evicting(m, now, from, to, travel_class) ==
    LET key == normalize_key(from, to, travel_class)
    IN  IF key \in DOMAIN m /\ ~is_expired(m[key], now)
        THEN [ret |-> Some(m[key].price_cents), entries |-> m]
        ELSE [ret |-> None, entries |-> [k \in DOMAIN m \ {key} |-> m[k]]]

\* PriceCache::get: the value returned and the mapping it leaves.
get(m, now, from, to, travel_class) ==
    LET key == normalize_key(from, to, travel_class)
    IN  IF key \in DOMAIN m /\ ~is_expired(m[key], now)
        THEN [ret |-> Some(m[key].price_cents), entries |-> m]
        ELSE [ret |-> None, entries |-> m]

\* Variant of set: an existing entry is kept (entry().or_insert).
set_keep_first(m, now, from, to, travel_class, price_cents) ==
    LET key == normalize_key(from, to, travel_class)
        entry == CacheEntryNew(price_cents, travel_class, now)
    IN  IF key \in DOMAIN m THEN m ELSE Insert(m, key, entry)

\* PriceCache::set: the mapping after entries.insert(key, entry).
set(m, now, from, to, travel_class, price_cents) ==
    LET key == normalize_key(from, to, travel_class)
        entry == CacheEntryNew(price_cents, travel_class, now)
    IN  Insert(m, key, entry)

\* Variant of set_io: a failed save takes the inserted entry out again.
set_io_rollback(m, f, now, from, to, travel_class, price_cents, io) ==
    LET inserted == set(m, now, from, to, travel_class, price_cents)
        saved == save_io(inserted, f, io)
    IN  [entries |-> IF saved.ok THEN inserted ELSE m,
         file |-> saved.file, ok |-> saved.ok]

\* PriceCache::set with its save: the mapping and the file it leaves, and
\* whether it returns Ok.
set_io(m, f, now, from, to, travel_class, price_cents, io) ==
    LET inserted == set(m, now, from, to, travel_class, price_cents)
        saved == save_io(inserted, f, io)
    IN  [entries |-> inserted, file |-> saved.file, ok |-> saved.ok]

\* Variant of cleanup: the file is written also when nothing was removed.
cleanup_save_always(m, f, now, io) ==
    LET kept == Retain(m, now)
        removed == Cardinality(DOMAIN m) - Cardinality(DOMAIN kept)
        saved == save_io(kept, f, io)
    IN  [entries |-> kept, removed |-> removed, file |-> saved.file, ok |-> saved.ok,
         io |-> io]

\* PriceCache::cleanup: the mapping and the file it leaves, the count it
\* computes, and whether it returns Ok(removed).
cleanup(m, f, now, io) ==
    LET kept == Retain(m, now)
        removed == Cardinality(DOMAIN m) - Cardinality(DOMAIN kept)
        saved == IF removed > 0 THEN save_io(kept, f, io) ELSE [file |-> f, ok |-> TRUE]
    IN  [entries |-> kept, removed |-> removed, file |-> saved.file, ok |-> saved.ok,
         io |-> IF removed > 0 THEN io ELSE "none"]

\* Variant of stats: every entry counted as valid.
stats_all_valid(m, now) ==
    LET total == Cardinality(DOMAIN m)
        expired == Cardinality({k \in DOMAIN m : is_expired(m[k], now)})
        valid == total
    IN  [total_entries |-> total, valid_entries |-> valid, expired_entries |-> expired]

\* PriceCache::stats
stats(m, now) ==
    LET total == Cardinality(DOMAIN m)
        expired == Cardinality({k \in DOMAIN m : is_expired(m[k], now)})
        valid == total - expired
    IN  [total_entries |-> total, valid_entries |-> valid, expired_entries |-> expired]

NoStats == [total_entries |-> 0, valid_entries |-> 0, expired_entries |-> 0]

\* Station display names given to the cache, and the (from, to) calls made.
NameA == <<"a">>
NameB == <<"b">>
NameAB == <<"a", "-", "b">>
NameBB == <<"b", "-", "b">>

CacheNames == {NameA, NameB, NameAB, NameBB}

Routes == {<<NameA, NameBB>>, <<NameBB, NameA>>, <<NameAB, NameB>>, <<NameA, NameB>>}

Classes == {1, 2}

Prices == {940, 1620}

NoLast ==
    [op |-> "none", from |-> <<>>, to |-> <<>>, travel_class |-> 0, price_cents |-> 0,
     key |-> <<>>, ret |-> None, removed |-> 0, stats |-> NoStats, ok |-> TRUE,
     io |-> "none"]

Get(from, to, travel_class) ==
    /\ entries' = get(entries, today, from, to, travel_class).entries
    /\ last' = [NoLast EXCEPT !.op = "get", !.from = from, !.to = to,
                              !.travel_class = travel_class,
                              !.key = normalize_key(from, to, travel_class),
                              !.ret = get(entries, today, from, to, travel_class).ret]
    /\ UNCHANGED <<file, today, everSet, stationVars, idleVars>>

\* set under an outcome of the file system.
SetIo(from, to, travel_class, price_cents, io) ==
    \E r \in {set_io(entries, file, today, from, to, travel_class, price_cents, io)} :
        /\ entries' = r.entries
        /\ file' = r.file
        /\ last' = [NoLast EXCEPT !.op = "set", !.from = from, !.to = to,
                                  !.travel_class = travel_class,
                                  !.price_cents = price_cents,
                                  !.key = normalize_key(from, to, travel_class),
                                  !.ok = r.ok, !.io = io]
        /\ handle' = [handle EXCEPT !.failed = @ \/ ~r.ok]
        /\ UNCHANGED <<today, stationVars, otherVars>>

SetCall(from, to, travel_class, price_cents) ==
    SetIo(from, to, travel_class, price_cents, "ok")

Set(from, to, travel_class, price_cents) ==
    /\ SetCall(from, to, travel_class, price_cents)
    /\ UNCHANGED everSet

\* The same call, with the history of the calls made kept in everSet.
SetRecorded(from, to, travel_class, price_cents) ==
    /\ SetCall(from, to, travel_class, price_cents)
    /\ everSet' = everSet \cup {<<{from, to}, travel_class>>}

\* cleanup under an outcome of the file system.
CleanupIo(io) ==
    \E r \in {cleanup(entries, file, today, io)} :
        /\ entries' = r.entries
        /\ file' = r.file
        /\ last' = [NoLast EXCEPT !.op = "cleanup", !.removed = r.removed, !.ok = r.ok,
                                  !.io = r.io]
        /\ handle' = [handle EXCEPT !.failed = @ \/ ~r.ok]
        /\ UNCHANGED <<today, everSet, stationVars, otherVars>>

Cleanup == CleanupIo("ok")

Stats ==
    /\ last' = [NoLast EXCEPT !.op = "stats", !.stats = stats(entries, today)]
    /\ UNCHANGED <<entries, file, today, everSet, stationVars, idleVars>>

\* The local clock reaches the next day it is observed on.
Tick ==
    /\ \E d \in ClockDates :
          /\ DateGeq(d, today) /\ d # today
          /\ \A e \in ClockDates : DateGeq(e, today) /\ e # today => DateGeq(e, d)
          /\ today' = d
    /\ last' = [NoLast EXCEPT !.op = "tick"]
    /\ UNCHANGED <<entries, file, everSet, stationVars, idleVars>>

\* The keys of the entries that cleanup would remove now.
ExpiredNow == {k \in DOMAIN entries : is_expired(entries[k], today)}

\* The callers of one shared PriceCache.
Threads == 1..NumThreads

NoEntry == [price_cents |-> 0, travel_class |-> 0, expires_at |-> <<>>]

\* A caller outside every PriceCache call; inside one: the call (op), the
\* position in it (pc), its locals key, entry and removed, and history: the
\* mapping as the caller's own insert or retain left it (seen) and the count
\* of mutations it then had (seen_mem).
IdleThread ==
    [pc |-> "idle", op |-> "none", key |-> <<>>, entry |-> NoEntry, removed |-> 0,
     seen |-> EmptyMap, seen_mem |-> 0]

\* History of the cache: mutations of the mapping counted (mem), the count
\* the mapping had when the file was last written (disk), calls started,
\* whether a set has returned Ok, and the (pair, class, year), kept for the
\* running year, for which a get_prices missed the cache and fetched a price
\* list that was not empty, and for the keys of the mapping the signed total
\* that get_prices last passed to set (stored).
NoHist ==
    [mem |-> 0, disk |-> 0, calls |-> 0, set_returned |-> FALSE, populated |-> {},
     stored |-> {}]

\* No get_prices call made yet. A call: its arguments, whether the API was
\* called (fetched), whether it returned Ok, the prices of the response, what
\* the environment did to the fetch ("none": no fetch was tried), and whether
\* cache.set, if called, returned Ok.
NoRequest ==
    [op |-> "none", from |-> <<>>, to |-> <<>>, travel_class |-> <<>>,
     travel_type |-> <<>>, cache |-> FALSE, fetched |-> FALSE, ok |-> TRUE,
     prices |-> <<>>, remote |-> "none", set_ok |-> TRUE]

\* One PriceCache opened without error, used by one caller at a time, and no
\* price request made.
InitOpened ==
    /\ handle = [open |-> "ok", failed |-> FALSE]
    /\ dir = TRUE
    /\ threads = [t \in Threads |-> IdleThread]
    /\ lock = 0
    /\ hist = NoHist
    /\ request = NoRequest

\* PriceCache::new on a path where no file exists yet.
Init ==
    /\ entries = EmptyMap
    /\ file = NoFile
    /\ today = Date(FirstYear, 1, 1)
    /\ last = NoLast
    /\ everSet = {}
    /\ stations = <<>>
    /\ call = NoCall
    /\ InitOpened

Next ==
    \/ \E r \in Routes, c \in Classes : Get(r[1], r[2], c)
    \/ \E r \in Routes, c \in Classes, p \in Prices : Set(r[1], r[2], c, p)
    \/ Cleanup
    \/ Stats
    \/ Tick

Spec == Init /\ [][Next]_vars

\* The same cache during one day, with the history of set calls recorded.
NextHist ==
    \/ \E r \in Routes, c \in Classes : Get(r[1], r[2], c)
    \/ \E r \in Routes, c \in Classes, p \in Prices : SetRecorded(r[1], r[2], c, p)
    \/ Cleanup

SpecHist == Init /\ [][NextHist]_vars

----------------------------------------------------------------------------
(* The cache on a file system that can fail, opened on any file *)

\* serde_json::from_str::<HashMap<String, CacheEntry>>: the mapping read back
\* from the members of a JSON object.
from_str(content) ==
    [k \in {m.key : m \in content} |->
        LET member == CHOOSE m \in content : m.key = k
        IN  [price_cents |-> member.price_cents,
             travel_class |-> member.travel_class,
             expires_at |-> member.expires_at]]

\* What the file system does to one PriceCache::new: "ok", "read_fails"
\* (fs::read_to_string returns an I/O error), "mkdir_fails" (fs::create_dir_all
\* returns an error).
OpenOutcomes == {"ok", "read_fails", "mkdir_fails"}

\* PriceCache::new: whether it returns Ok, the mapping of the value returned,
\* and whether the parent directory exists afterwards. fs::read_to_string
\* returns an error (InvalidData) for a file whose bytes are not UTF-8.
new(f, d, io) ==
    IF f.exists
    THEN IF io = "read_fails" \/ f.text = "not_utf8"
         THEN [ok |-> FALSE, entries |-> EmptyMap, dir |-> d]
         ELSE IF f.text = "object"
              THEN [ok |-> TRUE, entries |-> from_str(f.content), dir |-> d]
              ELSE [ok |-> TRUE, entries |-> EmptyMap, dir |-> d]
    ELSE IF ~d
         THEN IF io = "mkdir_fails"
              THEN [ok |-> FALSE, entries |-> EmptyMap, dir |-> d]
              ELSE [ok |-> TRUE, entries |-> EmptyMap, dir |-> TRUE]
         ELSE [ok |-> TRUE, entries |-> EmptyMap, dir |-> d]

\* A new PriceCache value opened at the path; it replaces the one held.
Open(io) ==
    \E r \in {new(file, dir, io)} :
        /\ io = "read_fails" => file.exists
        /\ io = "mkdir_fails" => (~file.exists /\ ~dir)
        /\ entries' = r.entries
        /\ dir' = r.dir
        /\ handle' = [open |-> IF r.ok THEN "ok" ELSE "err", failed |-> FALSE]
        /\ last' = [NoLast EXCEPT !.op = "open", !.ok = r.ok, !.io = io]
        /\ UNCHANGED <<file, today, everSet, stationVars, threadVars, request>>

\* The calls made on the cache in this specification.
IoRoutes == {<<NameA, NameB>>, <<NameB, NameA>>}

\* Values of expires_at that a file edited by hand can hold and that are not
\* dates written as YYYY-MM-DD: the empty string, a day that the month does
\* not have, and a date written day first.
UnparsedExpiries ==
    {<<>>,
     <<"2", "0", "9", "9", "-", "0", "2", "-", "3", "0">>,
     <<"0", "1", "-", "0", "1", "-", "2", "0", "9", "9">>}

\* A file written today, with one more entry whose expires_at is x.
EditedFile(x) ==
    save(Insert(set(EmptyMap, Date(FirstYear, 1, 1), NameA, NameB, 1, 1620),
                normalize_key(NameA, NameB, 2),
                [price_cents |-> 940, travel_class |-> 2, expires_at |-> x]))

\* Files found at the path: none, one written on the last day of last year,
\* one written today, one cut short, one that is not text, and those with an
\* entry whose expiry is not a date.
DiskFiles ==
    {NoFile,
     save(set(EmptyMap, Date(FirstYear - 1, 12, 31), NameA, NameB, 2, 940)),
     save(set(EmptyMap, Date(FirstYear, 1, 1), NameA, NameB, 1, 1620)),
     Truncated,
     [exists |-> TRUE, text |-> "not_utf8", content |-> {}]}
    \cup {EditedFile(x) : x \in UnparsedExpiries}

InitIo ==
    /\ file \in DiskFiles
    /\ dir \in BOOLEAN
    /\ file.exists => dir
    /\ entries = EmptyMap
    /\ handle = [open |-> "none", failed |-> FALSE]
    /\ today = Date(FirstYear, 1, 1)
    /\ last = NoLast
    /\ everSet = {}
    /\ stations = <<>>
    /\ call = NoCall
    /\ threads = [t \in Threads |-> IdleThread]
    /\ lock = 0
    /\ hist = NoHist
    /\ request = NoRequest

\* The calls made on the PriceCache value held, once one was opened.
IoGet(from, to, travel_class) ==
    /\ handle.open = "ok"
    /\ Get(from, to, travel_class)

IoSet(from, to, travel_class, price_cents, io) ==
    /\ handle.open = "ok"
    /\ SetIo(from, to, travel_class, price_cents, io)
    /\ UNCHANGED everSet

IoCleanup(io) ==
    /\ handle.open = "ok"
    /\ io # "ok" => ExpiredNow # {}
    /\ CleanupIo(io)

IoStats ==
    /\ handle.open = "ok"
    /\ Stats

NextIo ==
    \/ \E io \in OpenOutcomes : Open(io)
    \/ \E r \in IoRoutes, c \in Classes : IoGet(r[1], r[2], c)
    \/ \E r \in IoRoutes, c \in Classes, p \in Prices, io \in IoOutcomes :
          IoSet(r[1], r[2], c, p, io)
    \/ \E io \in IoOutcomes : IoCleanup(io)
    \/ IoStats
    \/ Tick

SpecIo == InitIo /\ [][NextIo]_vars

----------------------------------------------------------------------------
(* The cache shared by concurrent callers, each call taken lock by lock *)

\* Variant of written: save writes the mapping as the caller's own mutation
\* left it, not the mapping it finds under the lock.
written_own_snapshot(t) == [entries |-> threads[t].seen, mem |-> threads[t].seen_mem]

\* save: what to_writer_pretty(writer, &*entries) serialises, the guard held:
\* the mapping as it is now, with its count of mutations.
written(t) == [entries |-> entries, mem |-> hist.mem]

\* cleanup after its retain: save is called only if removed > 0.
after_retain(removed) == IF removed > 0 THEN "cleanup_unlocked" ELSE "idle"

\* Variant of lock_acquired: lock() returns whether or not a guard is alive.
lock_unchecked(l) == TRUE

\* Mutex::lock returns the guard only when no guard of the mutex is alive
\* (l = 0: no caller holds it); until then the caller is blocked.
lock_acquired(l) == l = 0

\* Variant of guard_dropped: set keeps its guard while it calls save.
guard_kept(t) == t

\* set: drop(entries), the holder of the mutex after it (0: nobody).
guard_dropped(t) == 0

\* A call begins: its arguments are evaluated and the caller stands before
\* its first self.entries.lock().
GetStart(t, from, to, travel_class) ==
    /\ threads[t].pc = "idle"
    /\ hist.calls < MaxCalls
    /\ threads' = [threads EXCEPT ![t] =
          [IdleThread EXCEPT !.pc = "get_start", !.op = "get",
                             !.key = normalize_key(from, to, travel_class)]]
    /\ hist' = [hist EXCEPT !.calls = @ + 1]
    /\ UNCHANGED <<entries, file, today, last, everSet, handle, dir, lock, request,
                   stationVars>>

SetStart(t, from, to, travel_class, price_cents) ==
    /\ threads[t].pc = "idle"
    /\ hist.calls < MaxCalls
    /\ threads' = [threads EXCEPT ![t] =
          [IdleThread EXCEPT !.pc = "set_start", !.op = "set",
                             !.key = normalize_key(from, to, travel_class),
                             !.entry = CacheEntryNew(price_cents, travel_class, today)]]
    /\ hist' = [hist EXCEPT !.calls = @ + 1]
    /\ UNCHANGED <<entries, file, today, last, everSet, handle, dir, lock, request,
                   stationVars>>

StatsStart(t) ==
    /\ threads[t].pc = "idle"
    /\ hist.calls < MaxCalls
    /\ threads' = [threads EXCEPT ![t] =
          [IdleThread EXCEPT !.pc = "stats_start", !.op = "stats"]]
    /\ hist' = [hist EXCEPT !.calls = @ + 1]
    /\ UNCHANGED <<entries, file, today, last, everSet, handle, dir, lock, request,
                   stationVars>>

CleanupStart(t) ==
    /\ threads[t].pc = "idle"
    /\ hist.calls < MaxCalls
    /\ threads' = [threads EXCEPT ![t] =
          [IdleThread EXCEPT !.pc = "cleanup_start", !.op = "cleanup"]]
    /\ hist' = [hist EXCEPT !.calls = @ + 1]
    /\ UNCHANGED <<entries, file, today, last, everSet, handle, dir, lock, request,
                   stationVars>>

\* get: self.entries.lock() succeeds.
GetLock(t) ==
    /\ threads[t].pc = "get_start"
    /\ lock_acquired(lock)
    /\ lock' = t
    /\ threads' = [threads EXCEPT ![t].pc = "get_locked"]
    /\ UNCHANGED <<entries, file, today, last, everSet, handle, dir, hist, request,
                   stationVars>>

\* get: the entry is looked up, the guard is dropped as get returns.
GetReturn(t) ==
    /\ threads[t].pc = "get_locked"
    /\ lock' = 0
    /\ threads' = [threads EXCEPT ![t] = IdleThread]
    /\ UNCHANGED <<entries, file, today, last, everSet, handle, dir, hist, request,
                   stationVars>>

\* stats: self.entries.lock() succeeds.
StatsLock(t) ==
    /\ threads[t].pc = "stats_start"
    /\ lock_acquired(lock)
    /\ lock' = t
    /\ threads' = [threads EXCEPT ![t].pc = "stats_locked"]
    /\ UNCHANGED <<entries, file, today, last, everSet, handle, dir, hist, request,
                   stationVars>>

\* stats: the counts are taken, the guard is dropped, stats returns.
StatsReturn(t) ==
    /\ threads[t].pc = "stats_locked"
    /\ lock' = 0
    /\ threads' = [threads EXCEPT ![t] = IdleThread]
    /\ UNCHANGED <<entries, file, today, last, everSet, handle, dir, hist, request,
                   stationVars>>

\* set: self.entries.lock() succeeds.
SetLock(t) ==
    /\ threads[t].pc = "set_start"
    /\ lock_acquired(lock)
    /\ lock' = t
    /\ threads' = [threads EXCEPT ![t].pc = "set_locked"]
    /\ UNCHANGED <<entries, file, today, last, everSet, handle, dir, hist, request,
                   stationVars>>

\* set: entries.insert(key, entry); drop(entries).
SetInsert(t) ==
    /\ threads[t].pc = "set_locked"
    /\ entries' = Insert(entries, threads[t].key, threads[t].entry)
    /\ lock' = guard_dropped(t)
    /\ threads' = [threads EXCEPT ![t].pc = "set_unlocked", ![t].seen = entries',
                                  ![t].seen_mem = hist.mem + 1]
    /\ hist' = [hist EXCEPT !.mem = @ + 1]
    /\ UNCHANGED <<file, today, last, everSet, handle, dir, request, stationVars>>

\* cleanup: self.entries.lock() succeeds.
CleanupLock(t) ==
    /\ threads[t].pc = "cleanup_start"
    /\ lock_acquired(lock)
    /\ lock' = t
    /\ threads' = [threads EXCEPT ![t].pc = "cleanup_locked"]
    /\ UNCHANGED <<entries, file, today, last, everSet, handle, dir, hist, request,
                   stationVars>>

\* cleanup: retain, removed computed, the guard dropped at the end of the
\* block; with removed = 0 the call returns Ok(0).
CleanupRetain(t) ==
    /\ threads[t].pc = "cleanup_locked"
    /\ \E kept \in {Retain(entries, today)} :
       \E removed \in {Cardinality(DOMAIN entries) - Cardinality(DOMAIN kept)} :
          /\ entries' = kept
          /\ lock' = 0
          /\ threads' = [threads EXCEPT ![t] =
                IF after_retain(removed) = "idle" THEN IdleThread
                ELSE [@ EXCEPT !.pc = after_retain(removed), !.removed = removed,
                               !.seen = kept, !.seen_mem = hist.mem + 1]]
          /\ hist' = [hist EXCEPT !.mem = IF removed > 0 THEN @ + 1 ELSE @]
          /\ UNCHANGED <<file, today, last, everSet, handle, dir, request, stationVars>>

\* save: self.entries.lock() succeeds.
SaveLock(t) ==
    /\ threads[t].pc \in {"set_unlocked", "cleanup_unlocked"}
    /\ lock_acquired(lock)
    /\ lock' = t
    /\ threads' = [threads EXCEPT ![t].pc = "save_locked"]
    /\ UNCHANGED <<entries, file, today, last, everSet, handle, dir, hist, request, stationVars>>

\* save: File::create(&self.path) leaves the file empty, open for writing.
SaveCreate(t) ==
    /\ threads[t].pc = "save_locked"
    /\ file' = Truncated
    /\ threads' = [threads EXCEPT ![t].pc = "save_created"]
    /\ UNCHANGED <<entries, today, last, everSet, handle, dir, lock, hist, request,
                   stationVars>>

\* save: to_writer_pretty(writer, &*entries), the guard held.
SaveWrite(t) ==
    /\ threads[t].pc = "save_created"
    /\ file' = save(written(t).entries)
    /\ threads' = [threads EXCEPT ![t].pc = "save_written"]
    /\ hist' = [hist EXCEPT !.disk = written(t).mem]
    /\ UNCHANGED <<entries, today, last, everSet, handle, dir, lock, request, stationVars>>

\* save returns Ok(()): the guard is dropped, and set or cleanup returns.
SaveReturn(t) ==
    /\ threads[t].pc = "save_written"
    /\ lock' = 0
    /\ threads' = [threads EXCEPT ![t] = IdleThread]
    /\ hist' = [hist EXCEPT !.set_returned = @ \/ threads[t].op = "set"]
    /\ UNCHANGED <<entries, file, today, last, everSet, handle, dir, request, stationVars>>

\* The calls the callers make.
ConcRoutes == {<<NameA, NameB>>}

ConcPrices == {940}

\* The cache opened on no file, or on a file written last year.
ConcFiles ==
    {NoFile,
     save(set(EmptyMap, Date(FirstYear - 1, 12, 31), NameA, NameB, 2, 940))}

InitConc ==
    /\ file \in ConcFiles
    /\ entries = new(file, TRUE, "ok").entries
    /\ today = Date(FirstYear, 1, 1)
    /\ last = NoLast
    /\ everSet = {}
    /\ stations = <<>>
    /\ call = NoCall
    /\ InitOpened

\* The steps a caller takes inside a call it has begun.
Proceed(t) ==
    \/ GetLock(t)
    \/ GetReturn(t)
    \/ StatsLock(t)
    \/ StatsReturn(t)
    \/ SetLock(t)
    \/ SetInsert(t)
    \/ CleanupLock(t)
    \/ CleanupRetain(t)
    \/ SaveLock(t)
    \/ SaveCreate(t)
    \/ SaveWrite(t)
    \/ SaveReturn(t)

NextConc ==
    \E t \in Threads :
        \/ \E r \in ConcRoutes, c \in Classes : GetStart(t, r[1], r[2], c)
        \/ \E r \in ConcRoutes, c \in Classes, p \in ConcPrices : SetStart(t, r[1], r[2], c, p)
        \/ StatsStart(t)
        \/ CleanupStart(t)
        \/ Proceed(t)

SpecConc == InitConc /\ [][NextConc]_vars

\* The scheduler lets every caller inside a call take its next step.
SpecConcFair == SpecConc /\ \A t \in Threads : WF_vars(Proceed(t))

----------------------------------------------------------------------------
(* src/prices/service.rs: get_prices over the cache and the remote API *)

\* Option<&str>: <<>> is None, <<s>> is Some(s).
unwrap_or(opt, default) == IF opt = <<>> THEN default ELSE opt[1]

\* Width of the integers of a price in the model, in place of the 32 bits of
\* i32 and u32: the u32 image of a negative i32 lies above 2^31 - 1, the
\* largest integer TLC holds. The casts are those of two's complement at
\* this width.
CentsBits == 16

\* The signed totals of the width: MinCents .. MaxCents.
MaxCents == 2 ^ (CentsBits - 1) - 1
MinCents == -(2 ^ (CentsBits - 1))

\* i32 as u32: the value modulo 2^CentsBits.
as_u32(x) == x % (2 ^ CentsBits)

\* Variant of as_i32: the unsigned value taken as it is.
as_i32_unsigned(x) == x

\* u32 as i32: the value modulo 2^CentsBits, taken in MinCents .. MaxCents.
as_i32(x) == IF x > MaxCents THEN x - 2 ^ CentsBits ELSE x

\* A Price of the API's response.
RemotePrice(total, travel_class) ==
    [travel_class |-> travel_class,
     total_price_in_cents |-> total,
     price_per_adult_in_cents |-> total,
     discount_type |-> "NONE",
     is_best_option |-> TRUE,
     display_name |-> "Remote Price"]

\* create_cached_response: payload.prices
create_cached_response(price_cents, travel_class) ==
    << [travel_class |-> travel_class,
        total_price_in_cents |-> as_i32(price_cents),
        price_per_adult_in_cents |-> as_i32(price_cents),
        discount_type |-> "NONE",
        is_best_option |-> TRUE,
        display_name |-> "Cached Price"] >>

\* Variant of use_cache: the travel type is not looked at.
use_cache_any_type(cache, travel_type) == cache

\* get_prices: cache.is_some() && travel_type.unwrap_or("single") == "single"
use_cache(cache, travel_type) == cache /\ unwrap_or(travel_type, "single") = "single"

\* Variant of drop_result: the error of cache.set is returned ("?").
propagate_result(set_ok) == set_ok

\* get_prices: "let _ = cache.set(..)": whether get_prices goes on to return
\* Ok(response) after a set that returned Ok (set_ok) or Err.
drop_result(set_ok) == TRUE

\* Variant of cache_lookup: the cache is not consulted.
cache_lookup_skipped(consult, m, now, from, to, class_num) == None

\* get_prices: "if use_cache { if let Some(cached_price) = cache.get(..) }"
cache_lookup(consult, m, now, from, to, class_num) ==
    IF consult THEN get(m, now, from, to, class_num).ret ELSE None

\* What the environment and the API do to one fetch: NS_API_TOKEN is not
\* set ("no_token"), request.call(), reading the body or parsing it fails
\* ("call_fails"), or a response arrives with the totals of its prices.
TotalLists == {<<>>, <<940, 1620>>}

RemoteOutcomes ==
    {[kind |-> k, totals |-> <<>>] : k \in {"no_token", "call_fails"}}
        \cup {[kind |-> "ok", totals |-> l] : l \in TotalLists}

\* get_prices: whether the API was called, whether set was called, whether
\* Ok is returned and with which prices, and the mapping and file left.
get_prices(m, f, now, from, to, travel_class, travel_type, cache, remote, io) ==
    LET class_str == unwrap_or(travel_class, "SECOND_CLASS")
        class_num == IF class_str = "FIRST_CLASS" THEN 1 ELSE 2
        cached == cache_lookup(use_cache(cache, travel_type), m, now, from, to, class_num)
        prices == [i \in 1..Len(remote.totals) |-> RemotePrice(remote.totals[i], class_str)]
        stores == use_cache(cache, travel_type) /\ remote.kind = "ok" /\ prices # <<>>
        stored == set_io(m, f, now, from, to, class_num,
                         as_u32(prices[1].total_price_in_cents), io)
    IN  IF cached.some
        THEN [fetched |-> FALSE, stores |-> FALSE, ok |-> TRUE,
              prices |-> create_cached_response(cached.val, class_str),
              entries |-> m, file |-> f, set_ok |-> TRUE]
        ELSE IF remote.kind = "no_token"
        THEN [fetched |-> FALSE, stores |-> FALSE, ok |-> FALSE, prices |-> <<>>,
              entries |-> m, file |-> f, set_ok |-> TRUE]
        ELSE IF remote.kind # "ok"
        THEN [fetched |-> TRUE, stores |-> FALSE, ok |-> FALSE, prices |-> <<>>,
              entries |-> m, file |-> f, set_ok |-> TRUE]
        ELSE [fetched |-> TRUE, stores |-> stores,
              ok |-> IF stores THEN drop_result(stored.ok) ELSE TRUE,
              prices |-> prices,
              entries |-> IF stores THEN stored.entries ELSE m,
              file |-> IF stores THEN stored.file ELSE f,
              set_ok |-> IF stores THEN stored.ok ELSE TRUE]

TravelClasses == {<<>>, <<"FIRST_CLASS">>}

TravelTypes == {<<"single">>, <<"return">>}

\* One get_prices call. The outcome of the fetch is drawn only when the cache
\* gave no price, that of the file system only when set is called; the result
\* of set is dropped ("let _ =").
GetPrices(from, to, travel_class, travel_type, cache, remote, io) ==
    LET class_num == IF unwrap_or(travel_class, "SECOND_CLASS") = "FIRST_CLASS" THEN 1 ELSE 2
        hit == cache_lookup(use_cache(cache, travel_type), entries, today,
                            from, to, class_num).some
    IN  \E r \in {get_prices(entries, file, today, from, to, travel_class, travel_type,
                             cache, remote, io)} :
        /\ io # "ok" => r.stores
        /\ hit => remote = [kind |-> "ok", totals |-> <<>>]
        /\ entries' = r.entries
        /\ file' = r.file
        /\ request' = [op |-> "get_prices", from |-> from, to |-> to,
                       travel_class |-> travel_class, travel_type |-> travel_type,
                       cache |-> cache, fetched |-> r.fetched, ok |-> r.ok,
                       prices |-> r.prices,
                       remote |-> IF hit THEN "none" ELSE remote.kind,
                       set_ok |-> r.set_ok]
        /\ last' = [NoLast EXCEPT !.op = "get_prices"]
        /\ handle' = [handle EXCEPT !.failed = @ \/ ~r.set_ok]
        /\ hist' = [hist EXCEPT !.populated =
              LET this_year == {x \in @ : x[3] = today.year}
              IN  IF cache /\ travel_type \in {<<>>, <<"single">>}
                           /\ r.fetched /\ r.ok /\ r.prices # <<>>
                  THEN this_year \cup {<<{from, to}, class_num, today.year>>}
                  ELSE this_year,
                            !.stored =
              LET key == normalize_key(from, to, class_num)
                  kept == {e \in @ : e[1] \in DOMAIN r.entries /\ (r.stores => e[1] # key)}
              IN  IF r.stores
                  THEN kept \cup {<<key, r.prices[1].total_price_in_cents>>}
                  ELSE kept]
        /\ UNCHANGED <<today, everSet, dir, threads, lock, stationVars>>

\* The calls made, all of them with the cache of the process supplied.
PriceRoutes == {<<NameA, NameB>>, <<NameB, NameA>>}

NextPrices ==
    \/ \E r \in PriceRoutes, tc \in TravelClasses, tt \in TravelTypes, cache \in {TRUE},
          remote \in RemoteOutcomes, io \in {"ok", "create_fails"} :
            GetPrices(r[1], r[2], tc, tt, cache, remote, io)
    \/ Cleanup
    \/ Tick

SpecPrices == Init /\ [][NextPrices]_vars

\* The totals of the first price the API returns: the ends of the signed
\* range, those around zero, and a fare.
WideTotals == {MinCents, -940, -1, 0, 940, MaxCents}

\* What the API returns in this specification: no price, or one price with
\* any of these totals.
WideOutcomes ==
    {[kind |-> "ok", totals |-> l] : l \in {<<>>} \cup {<<v>> : v \in WideTotals}}

\* get_prices for single trips between one pair of stations.
NextTotals ==
    \E r \in PriceRoutes, tc \in TravelClasses, remote \in WideOutcomes :
        GetPrices(r[1], r[2], tc, <<"single">>, TRUE, remote, "ok")

SpecTotals == Init /\ [][NextTotals]_vars

----------------------------------------------------------------------------
(* The station matcher applied to every table and query of the bounds *)

InitCacheIdle ==
    /\ entries = EmptyMap
    /\ file = NoFile
    /\ today = Date(FirstYear, 1, 1)
    /\ last = NoLast
    /\ everSet = {}
    /\ InitOpened

InitLookup ==
    /\ stations \in Tables
    /\ call = NoCall
    /\ InitCacheIdle

NextLookup ==
    \/ \E query \in Queries : PickStationLocal(query)
    \/ \E query \in Queries : LookupStationLocal(query)

SpecLookup == InitLookup /\ [][NextLookup]_vars

----------------------------------------------------------------------------
(* Vocabulary of the properties, independent of the operators above *)

\* name contains q as a substring, compared case-insensitively.
ContainsIgnoringCase(name, q) ==
    \E i \in 0..(Len(name) - Len(q)) :
        SameNameIgnoringCase(SubSeq(name, i + 1, i + Len(q)), q)

ExactEntries(q) == {i \in 1..Len(stations) : SameNameIgnoringCase(stations[i][1], q)}

SubstringEntries(q) == {i \in 1..Len(stations) : ContainsIgnoringCase(stations[i][1], q)}

IsMatch(e) == ContainsIgnoringCase(e[1], call.query)

\* The result carries table entry i: its display name and its code.
IsStationOf(st, i) ==
    /\ st.names.long = stations[i][1]
    /\ DigitsValue(st.id.uic_code) = stations[i][2]

Picked == call.fn = "pick_station_local"

Looked == call.fn = "lookup_station_local"

----------------------------------------------------------------------------
(* Properties of the station matcher, checked under SpecLookup *)

\* C1: a query equal, case-insensitively, to the display name of a table
\* entry gets that entry as the single result, however many other entries
\* contain the query as a substring.
C1_ExactMatchWins ==
    Picked =>
        \A i \in ExactEntries(call.query) :
            /\ call.ret.tag = "Ok"
            /\ IsStationOf(call.ret.station, i)

C1_Witness ==
    /\ Picked
    /\ call.ret.tag = "Ok"
    /\ ExactEntries(call.query) # {}
    /\ Cardinality(SubstringEntries(call.query)) >= 2

C3_NoMatchIsNone ==
    (Picked /\ SubstringEntries(call.query) = {}) =>
        /\ call.ret.tag = "Err"
        /\ call.ret.err = ErrNoStations

C3_Witness ==
    /\ Picked
    /\ Len(stations) >= 2
    /\ SubstringEntries(call.query) = {}
    /\ call.ret.err = ErrNoStations

\* C4: a query with no exact match that is a substring of exactly one entry
\* gets that entry as the single result.
C4_UniqueSubstringIsSingle ==
    (Picked /\ ExactEntries(call.query) = {}) =>
        \A i \in SubstringEntries(call.query) :
            SubstringEntries(call.query) = {i} =>
                /\ call.ret.tag = "Ok"
                /\ IsStationOf(call.ret.station, i)

C4_Witness ==
    /\ Picked
    /\ Len(stations) >= 2
    /\ ExactEntries(call.query) = {}
    /\ Cardinality(SubstringEntries(call.query)) = 1
    /\ call.ret.tag = "Ok"

\* C5: the matcher has no side effect in any outcome: it prints nothing, also
\* when the query is ambiguous or matches nothing.
C5_MatcherPrintsNothing ==
    Picked => call.printed = <<>>

----------------------------------------------------------------------------
(* Properties of the price cache, checked under Spec and SpecHist *)

Called(op) == last.op = op

\* C6: the cache key does not depend on the order of the two station names,
\* and the keys of the two travel classes of a pair differ.
C6_KeyOrderIndependent ==
    (Called("get") \/ Called("set")) =>
        /\ last.key = normalize_key(last.to, last.from, last.travel_class)
        /\ \A other \in CacheNames, c \in Classes :
              /\ normalize_key(last.from, other, c) = normalize_key(other, last.from, c)
              /\ normalize_key(last.from, other, 1) # normalize_key(last.from, other, 2)

C6_Witness ==
    /\ Called("set")
    /\ StrLess(last.to, last.from)
    /\ last.key \in DOMAIN entries

\* C7: right after set(A, B, c, P) has returned, get(A, B, c) and get(B, A, c)
\* both return Some(P), whatever calls came before the set.
C7_SetGetRoundTrip ==
    Called("set") =>
        /\ get(entries, today, last.from, last.to, last.travel_class).ret
              = Some(last.price_cents)
        /\ get(entries, today, last.to, last.from, last.travel_class).ret
              = Some(last.price_cents)

C7_Witness ==
    /\ Called("set")
    /\ last.from # last.to
    /\ Cardinality(DOMAIN entries) >= 2
    /\ \E k \in DOMAIN entries : is_expired(entries[k], today)

\* C8: when set was called for one class of a station pair and never for the
\* other class of that pair, get for the other class returns absent, in both
\* directions.
C8_CrossClassIsolation ==
    Called("get") =>
        LET pair == {last.from, last.to}
            other == 3 - last.travel_class
        IN  (<<pair, other>> \in everSet /\ <<pair, last.travel_class>> \notin everSet)
                => last.ret = None

\* C9: set on a date of year Y stores the expiry date Y+1-01-01, and get
\* returns the stored price on every date before that January 1st and absent
\* from that January 1st on, the expiry date itself included.
C9_ValidThroughCalendarYear ==
    /\ Called("set") =>
          LET parsed == parse_from_str(entries[last.key].expires_at)
          IN  parsed.ok /\ parsed.date = Date(today.year + 1, 1, 1)
    /\ (Called("get") /\ last.key \in DOMAIN entries) =>
          LET parsed == parse_from_str(entries[last.key].expires_at)
          IN  /\ parsed.ok /\ parsed.date.month = 1 /\ parsed.date.day = 1
              /\ today.year < parsed.date.year
                    => last.ret = Some(entries[last.key].price_cents)
              /\ today.year >= parsed.date.year => last.ret = None

C9_Witness ==
    /\ Called("get")
    /\ last.key \in DOMAIN entries
    /\ parse_from_str(entries[last.key].expires_at).date = today
    /\ last.ret = None

\* C10: get changes neither the mapping nor the backing file; on an expired
\* entry it returns absent and the entry stays in the mapping, still counted
\* as expired by stats.
C10_GetIsPure ==
    [][ last'.op = "get" =>
            /\ entries' = entries
            /\ file' = file
            /\ (last'.key \in DOMAIN entries /\ is_expired(entries[last'.key], today)) =>
                  /\ last'.ret = None
                  /\ last'.key \in DOMAIN entries'
                  /\ stats(entries', today').expired_entries
                        = stats(entries, today).expired_entries
                  /\ stats(entries', today').expired_entries >= 1 ]_vars

C10_Witness ==
    /\ Called("get")
    /\ last.ret = None
    /\ last.key \in DOMAIN entries
    /\ is_expired(entries[last.key], today)
    /\ \E m \in file.content : m.key = last.key

----------------------------------------------------------------------------
(* Properties of cleanup and stats, checked under Spec *)

\* The date d1 is on or before the date d2.
OnOrBefore(d1, d2) ==
    \/ d1.year < d2.year
    \/ d1.year = d2.year /\ d1.month < d2.month
    \/ d1.year = d2.year /\ d1.month = d2.month /\ d1.day <= d2.day

\* The expiry date of the entry is on or before the date d.
ExpiredOn(entry, d) ==
    LET parsed == parse_from_str(entry.expires_at)
    IN  parsed.ok /\ OnOrBefore(parsed.date, d)

ExpiredKeys(m, d) == {k \in DOMAIN m : ExpiredOn(m[k], d)}

\* C11: cleanup removes exactly the expired entries: the mapping it leaves
\* holds precisely the entries that were not expired before the call, each
\* unchanged, the count it returns is the number of entries that were
\* expired, and a cleanup right after it on the same date returns 0.
C11_CleanupRemovesExactlyExpired ==
    [][ last'.op = "cleanup" =>
            /\ DOMAIN entries' = DOMAIN entries \ ExpiredKeys(entries, today)
            /\ \A k \in DOMAIN entries' : entries'[k] = entries[k]
            /\ last'.ok /\ last'.removed = Cardinality(ExpiredKeys(entries, today))
            /\ last.op = "cleanup" => last'.removed = 0 ]_vars

C11_Witness ==
    /\ Called("cleanup")
    /\ last.removed >= 1
    /\ entries # EmptyMap

\* C12: cleanup writes the file only when it removed something: when no entry
\* was expired it returns 0 and the file, its existence included, is as it
\* was; when it removed an entry the file is rewritten with the entries left,
\* none of them expired.
C12_CleanupWritesOnlyOnRemoval ==
    [][ last'.op = "cleanup" =>
            /\ ExpiredKeys(entries, today) = {} => (last'.removed = 0 /\ file' = file)
            /\ last'.removed > 0 =>
                  /\ file'.exists /\ file'.text = "object"
                  /\ {m.key : m \in file'.content} = DOMAIN entries'
                  /\ \A m \in file'.content :
                        /\ ~ExpiredOn(m, today')
                        /\ m.price_cents = entries'[m.key].price_cents
                        /\ m.expires_at = entries'[m.key].expires_at ]_vars

C12_Witness ==
    /\ Called("cleanup")
    /\ last.removed >= 1
    /\ file.content # {}
    /\ \A m \in file.content : ~ExpiredOn(m, today)

----------------------------------------------------------------------------
(* Properties of opening and persisting, checked under SpecIo *)

\* C14: after any sequence of set and cleanup calls that all returned Ok on
\* a cache opened at the path, a new cache opened at the same path gives, for
\* every (from, to, class), the get result the original gives on that date.
C14_PersistenceRoundTrip ==
    [][ (last'.op = "open" /\ handle'.open = "ok"
            /\ handle.open = "ok" /\ ~handle.failed) =>
            \A r \in IoRoutes, c \in Classes :
                get(entries', today', r[1], r[2], c).ret
                    = get(entries, today, r[1], r[2], c).ret ]_vars

\* C15: opening a cache whose file exists with malformed content returns no
\* error and gives the empty mapping (every get absent, stats total 0); open
\* fails only for an I/O error other than "file absent" and "malformed
\* content".
C15_CorruptFileResilience ==
    Called("open") =>
        /\ (file.exists /\ file.text # "object" /\ last.io = "ok") =>
              /\ last.ok
              /\ handle.open = "ok"
              /\ stats(entries, today).total_entries = 0
              /\ \A r \in IoRoutes, c \in Classes :
                    get(entries, today, r[1], r[2], c).ret = None
        /\ ~last.ok => last.io \in {"read_fails", "mkdir_fails"}

\* C18: when the write of the file fails during set, or during a cleanup
\* that removed entries, the call returns an error and the change made to
\* the mapping stays: after a failed set(A, B, c, P), get(A, B, c) is Some(P).
C18_WriteFailureReported ==
    ((Called("set") \/ Called("cleanup")) /\ last.io \in {"create_fails", "flush_fails"}) =>
        /\ ~last.ok
        /\ Called("set") =>
              get(entries, today, last.from, last.to, last.travel_class).ret
                  = Some(last.price_cents)
        /\ Called("cleanup") => ExpiredKeys(entries, today) = {}

----------------------------------------------------------------------------
(* Properties of concurrent calls, checked under SpecConc *)

\* The file holds exactly the entries of the mapping.
FileAgrees ==
    /\ {m.key : m \in file.content} = DOMAIN entries
    /\ \A m \in file.content :
          /\ m.price_cents = entries[m.key].price_cents
          /\ m.travel_class = entries[m.key].travel_class
          /\ m.expires_at = entries[m.key].expires_at

AllReturned == \A t \in Threads : threads[t].pc = "idle"

\* C16: in every interleaving of concurrent set and cleanup calls on one
\* cache, without I/O failure, no write replaces the file with a snapshot of
\* the mapping older than one already written, and once all calls have
\* returned the file holds exactly the mapping.
C16_NoStaleOverwrite ==
    [][ /\ hist'.disk >= hist.disk
        /\ AllReturned' => FileAgrees' ]_vars

\* One caller has written the mapping while another, whose insert the
\* snapshot includes, has yet to save.
C16_Witness ==
    \E t, u \in Threads :
        /\ threads[t].pc = "save_written"
        /\ threads[u].pc = "set_unlocked"
        /\ threads[t].seen_mem < threads[u].seen_mem
        /\ hist.disk = threads[u].seen_mem
        /\ FileAgrees

\* C17: once a set call has returned Ok, no other set or cleanup call on the
\* cache finds, when it holds the lock, a mapping and a file that disagree.
C17_MutatorsSeeFileInSync ==
    (hist.set_returned /\ \E t \in Threads : threads[t].pc \in {"set_locked", "cleanup_locked"})
        => FileAgrees

----------------------------------------------------------------------------
(* Properties of get_prices, checked under SpecPrices *)

\* The step is a get_prices call with a cache supplied for a single trip.
CachedSingleCall ==
    /\ last'.op = "get_prices"
    /\ request'.cache
    /\ request'.travel_type \in {<<>>, <<"single">>}

ClassNumber(travel_class) == IF travel_class = <<"FIRST_CLASS">> THEN 1 ELSE 2

\* The unexpired price the mapping m holds on date d for the pair and class.
CachedPrices(m, d, from, to, class_num) ==
    {m[k].price_cents : k \in {x \in DOMAIN m :
        /\ x \in {normalize_key(from, to, class_num), normalize_key(to, from, class_num)}
        /\ ~ExpiredOn(m[x], d)}}

\* C19: with a cache supplied and a single trip asked for, the remote API is
\* called only if the cache held no unexpired price for the pair and class;
\* on a hit no remote call is made and the result is built from the cached
\* price.
C19_FetchOnlyOnMiss ==
    [][ CachedSingleCall =>
            LET cached == CachedPrices(entries, today, request'.from, request'.to,
                                       ClassNumber(request'.travel_class))
            IN  /\ request'.fetched => cached = {}
                /\ cached # {} =>
                      /\ ~request'.fetched
                      /\ request'.ok
                      /\ Len(request'.prices) = 1
                      /\ request'.prices[1].total_price_in_cents \in cached
                      /\ request'.prices[1].display_name = "Cached Price"
                      /\ entries' = entries /\ file' = file ]_vars

C19_Witness ==
    /\ request.op = "get_prices"
    /\ last.op = "get_prices"
    /\ request.cache /\ request.travel_type = <<"single">>
    /\ ~request.fetched
    /\ request.ok
    /\ request.prices[1].total_price_in_cents = 940

\* C20: when get_prices, with a cache supplied and a single trip asked for,
\* misses and fetches a price list that is not empty, the total of the first
\* price is stored for the pair and class, and every later such call for the
\* pair, in either direction and for that class, in the same calendar year is
\* a hit without a remote call; when the list fetched is empty nothing is
\* stored.
C20_MissPopulatesCache ==
    [][ CachedSingleCall =>
            LET c == ClassNumber(request'.travel_class)
                pair == {request'.from, request'.to}
            IN  /\ (request'.fetched /\ request'.ok /\ request'.prices # <<>>) =>
                      CachedPrices(entries', today', request'.from, request'.to, c)
                          = {request'.prices[1].total_price_in_cents}
                /\ (request'.fetched /\ request'.ok /\ request'.prices = <<>>) =>
                      (entries' = entries /\ file' = file)
                /\ <<pair, c, today.year>> \in hist.populated =>
                      /\ ~request'.fetched
                      /\ request'.ok
                      /\ request'.prices[1].display_name = "Cached Price" ]_vars

C20_Witness ==
    /\ last.op = "get_prices"
    /\ request.cache /\ request.travel_type = <<"single">>
    /\ ~request.fetched
    /\ <<{request.from, request.to}, 2, today.year>> \in hist.populated
    /\ request.from = NameB
    /\ today.month = 12
    /\ handle.failed

\* The step is a get_prices call for a return trip.
ReturnCall ==
    /\ last'.op = "get_prices"
    /\ request'.travel_type = <<"return">>

\* C21 as stated: a get_prices call for a return trip leaves mapping and file
\* unchanged and always calls the remote API.
C21_ReturnAlwaysCallsRemote ==
    [][ ReturnCall =>
            /\ entries' = entries
            /\ file' = file
            /\ request'.fetched ]_vars

\* C21, amended: a get_prices call for a return trip leaves mapping and file
\* unchanged and never answers from the cache, also when a single-trip price
\* for the pair and class is cached: it calls the remote API whenever
\* NS_API_TOKEN is set, and without the token it returns an error and makes
\* no remote call.
C21_ReturnBypassesCache ==
    [][ ReturnCall =>
            /\ entries' = entries
            /\ file' = file
            /\ request'.remote # "none"
            /\ request'.remote # "no_token" => request'.fetched
            /\ request'.remote = "no_token" => (~request'.fetched /\ ~request'.ok)
            /\ \A i \in 1..Len(request'.prices) :
                  request'.prices[i].display_name # "Cached Price" ]_vars

C21_Witness ==
    /\ last.op = "get_prices"
    /\ request.travel_type = <<"return">>
    /\ request.fetched /\ request.ok
    /\ CachedPrices(entries, today, request.from, request.to,
                    ClassNumber(request.travel_class)) # {}

----------------------------------------------------------------------------
(* Further properties of the sequential cache, checked under Spec *)

\* C22: set(A, B, c, P2) replaces the entry under its key, valid or expired,
\* by one with price P2 and a fresh expiry, the entry count staying as it was
\* when the key was present; the entry of every other key is unchanged in
\* the mapping and in the rewritten file, which holds the full mapping.
C22_SetTouchesOnlyItsKey ==
    [][ last'.op = "set" =>
            LET k == last'.key
                fresh == parse_from_str(entries'[k].expires_at)
            IN  /\ DOMAIN entries' = DOMAIN entries \cup {k}
                /\ k \in DOMAIN entries =>
                      Cardinality(DOMAIN entries') = Cardinality(DOMAIN entries)
                /\ entries'[k].price_cents = last'.price_cents
                /\ entries'[k].travel_class = last'.travel_class
                /\ fresh.ok /\ fresh.date = [year |-> today.year + 1, month |-> 1, day |-> 1]
                /\ \A o \in DOMAIN entries \ {k} : entries'[o] = entries[o]
                /\ file'.exists /\ file'.text = "object"
                /\ Cardinality(file'.content) = Cardinality(DOMAIN entries')
                /\ FileAgrees' ]_vars

C22_Witness ==
    /\ Called("set")
    /\ last.price_cents = 1620
    /\ Cardinality(DOMAIN entries) = 3
    /\ Cardinality(file.content) = 3
    /\ \E o \in DOMAIN entries \ {last.key} : ExpiredOn(entries[o], today)
    /\ today.year > FirstYear

----------------------------------------------------------------------------
(* Entries read from a file whose expiry is not a date, checked under SpecIo *)

\* The keys of the entries of m whose expires_at is not a date YYYY-MM-DD.
UnparsedKeys(m) == {k \in DOMAIN m : ~parse_from_str(m[k].expires_at).ok}

\* C23: an entry loaded from the file whose expires_at does not parse as
\* YYYY-MM-DD is expired on every date: get on its key returns absent, stats
\* counts it under expired (with the entries whose date is reached), and
\* cleanup removes it from the mapping and counts it as removed.
C23_UnparsedExpiryIsExpired ==
    [][ /\ (last'.op = "get" /\ last'.key \in UnparsedKeys(entries)) =>
              last'.ret = None
        /\ last'.op = "stats" =>
              /\ last'.stats.expired_entries =
                    Cardinality(UnparsedKeys(entries) \cup ExpiredKeys(entries, today))
              /\ last'.stats.valid_entries =
                    Cardinality(DOMAIN entries) - last'.stats.expired_entries
        /\ last'.op = "cleanup" =>
              /\ UnparsedKeys(entries) \cap DOMAIN entries' = {}
              /\ last'.removed >= Cardinality(UnparsedKeys(entries)) ]_vars

\* A get on a later date finds the entry with the unparsed expiry in the
\* mapping and returns absent.
C23_Witness ==
    /\ Called("get")
    /\ last.key \in UnparsedKeys(entries)
    /\ last.ret = None
    /\ today.year > FirstYear
    /\ Cardinality(DOMAIN entries) = 2

----------------------------------------------------------------------------
(* A cache write that fails during get_prices, checked under SpecPrices *)

\* The get_prices call just made fetched a price list and its cache.set
\* returned an error.
SetFailed == last.op = "get_prices" /\ request.fetched /\ ~request.set_ok

\* C24: when cache.set returns an error after a successful remote fetch,
\* get_prices still returns Ok with the price list fetched, and the entry is
\* in the mapping in memory although the file was not written; the next
\* request for that pair (in either direction, same class, single trip) on
\* the same instance is answered from that entry without a remote call.
C24_SetFailureNeverFailsRequest ==
    [][ /\ SetFailed' =>
              /\ request'.ok
              /\ request'.prices # <<>>
              /\ \A i \in 1..Len(request'.prices) :
                    request'.prices[i].display_name = "Remote Price"
              /\ file' = file
              /\ CachedPrices(entries', today', request'.from, request'.to,
                              ClassNumber(request'.travel_class))
                    = {request'.prices[1].total_price_in_cents}
        /\ ( /\ SetFailed
             /\ CachedSingleCall
             /\ {request'.from, request'.to} = {request.from, request.to}
             /\ ClassNumber(request'.travel_class) = ClassNumber(request.travel_class) ) =>
              /\ ~request'.fetched
              /\ request'.ok
              /\ Len(request'.prices) = 1
              /\ request'.prices[1].display_name = "Cached Price"
              /\ request'.prices[1].total_price_in_cents
                    = request.prices[1].total_price_in_cents ]_vars

\* A request answered from an entry that no write put in the file.
C24_Witness ==
    /\ last.op = "get_prices"
    /\ ~request.fetched /\ request.ok
    /\ request.prices # <<>>
    /\ request.prices[1].display_name = "Cached Price"
    /\ handle.failed
    /\ ~file.exists

----------------------------------------------------------------------------
(* Keys of distinct station pairs, checked under SpecHist *)

\* C25: the key of a set(A, B, c, P) is the key of no other unordered pair
\* {C, D} of names for the class c, names containing '-' included; hence
\* when set was called for one pair and class only, a get(C, D, c) for any
\* other pair returns absent.
C25_KeyInjectivity ==
    /\ Called("set") =>
          \A C \in CacheNames, D \in CacheNames :
              {C, D} # {last.from, last.to} =>
                  normalize_key(C, D, last.travel_class) # last.key
    /\ (Called("get") /\ Cardinality(everSet) = 1) =>
          \A e \in everSet :
              (e[1] # {last.from, last.to} /\ e[2] = last.travel_class) =>
                  last.ret = None

----------------------------------------------------------------------------
(* Locking of the shared cache, checked under SpecConcFair *)

\* The caller stands before a self.entries.lock(): the first of its call, or
\* that of save.
AtLock(t) ==
    threads[t].pc \in {"get_start", "set_start", "stats_start", "cleanup_start",
                       "set_unlocked", "cleanup_unlocked"}

InCall(t) == threads[t].pc # "idle"

\* C26: in every interleaving of get, set, cleanup and stats calls on one
\* cache, no caller reaches a lock() of the mutex while it holds the mutex
\* itself, and under fair scheduling every call begun returns.
C26_DeadlockFreedom ==
    /\ [](\A t \in Threads : AtLock(t) => lock # t)
    /\ \A t \in Threads : InCall(t) ~> ~InCall(t)

\* One caller, its insert done, waits for the mutex to save while another
\* caller holds it inside its own save.
C26_Witness ==
    \E t, u \in Threads :
        /\ threads[t].pc = "set_unlocked"
        /\ threads[u].pc = "save_created"
        /\ lock = u

----------------------------------------------------------------------------
(* Writes of the file by concurrent callers, checked under SpecConc *)

\* The caller is inside save with the guard: about to create the file, with
\* the file created and not yet written, or with the mapping written.
InSave(t) == threads[t].pc \in {"save_locked", "save_created", "save_written"}

\* The step completes a write of the file by the caller t.
CompletesWrite(t) == threads[t].pc = "save_created" /\ threads'[t].pc = "save_written"

\* C27: at most one caller is writing the file at any moment, and each
\* completed write stores exactly the mapping as it was while the lock was
\* held for that write: the mapping does not change while a caller is inside
\* save, and the file written holds it entry for entry.
C27_ExclusiveSnapshotWrites ==
    /\ [](\A t \in Threads, u \in Threads : (InSave(t) /\ InSave(u)) => t = u)
    /\ [][ \A t \in Threads :
              /\ InSave(t) => entries' = entries
              /\ CompletesWrite(t) =>
                    /\ FileAgrees'
                    /\ file'.exists /\ file'.text = "object"
                    /\ hist'.disk = hist.mem ]_vars

\* A write is complete, holding both entries, while another caller that
\* changed the mapping waits to write in its turn.
C27_Witness ==
    \E t, u \in Threads :
        /\ threads[t].pc = "save_written"
        /\ lock = t
        /\ threads[u].pc \in {"set_unlocked", "cleanup_unlocked"}
        /\ Cardinality(file.content) = 2
        /\ FileAgrees

----------------------------------------------------------------------------
(* The empty query, checked under SpecLookup *)

\* C28: the empty query equals no entry name and is a substring of every
\* one, so on a table of two or more entries the matcher returns Multiple
\* with the whole table in table order, never None; pick_station_local
\* prints every entry of the table in table order and returns the "multiple
\* stations" error.
C28_EmptyQueryMatchesAll ==
    (call.query = <<>> /\ Len(stations) >= 2) =>
        /\ ExactEntries(call.query) = {}
        /\ Looked =>
              /\ call.ret.tag = "Multiple"
              /\ call.ret.matches = stations
        /\ Picked =>
              /\ call.ret.tag = "Err" /\ call.ret.err = ErrMultiple
              /\ Len(call.printed) = Len(stations) + 1
              /\ \A i \in 1..Len(stations) : call.printed[i + 1] = MatchLine(stations[i])

C28_Witness ==
    /\ Looked
    /\ call.query = <<>>
    /\ Len(stations) = MaxStations
    /\ call.ret.tag = "Multiple"
    /\ call.ret.matches = stations

----------------------------------------------------------------------------
(* The price through the cache, checked under SpecTotals *)

\* The step is a get_prices call answered from the cache.
CacheHit ==
    /\ last'.op = "get_prices"
    /\ request'.remote = "none"
    /\ request'.ok

\* C29: when the first price fetched, of signed total v, was stored (cast to
\* unsigned), a later call answered from the cache returns one price whose
\* total_price_in_cents and price_per_adult_in_cents are v (cast back), of
\* the travel class the call asks for.
C29_PricePreservedThroughCache ==
    [][ CacheHit =>
            LET key == normalize_key(request'.from, request'.to,
                                     ClassNumber(request'.travel_class))
            IN  /\ Len(request'.prices) = 1
                /\ request'.prices[1].travel_class
                      = unwrap_or(request'.travel_class, "SECOND_CLASS")
                /\ \E e \in hist.stored : e[1] = key
                /\ \A e \in hist.stored :
                      e[1] = key =>
                          /\ request'.prices[1].total_price_in_cents = e[2]
                          /\ request'.prices[1].price_per_adult_in_cents = e[2] ]_vars

\* A first-class call answered from the cache with the least total of the
\* range, stored by a call made in the other direction.
C29_Witness ==
    /\ last.op = "get_prices"
    /\ request.remote = "none"
    /\ request.travel_class = <<"FIRST_CLASS">>
    /\ request.from = NameB
    /\ request.prices[1].total_price_in_cents = MinCents
    /\ request.prices[1].travel_class = "FIRST_CLASS"
    /\ entries[normalize_key(NameA, NameB, 1)].price_cents = MaxCents + 1

====
